---------------------------- MODULE Spec2Model ----------------------------
(***************************************************************************)
(* A model of hydra_plugins/hydra_sweeper_explicit/_sweeper.py: the        *)
(* ExplicitSweeper object (combinations, seeds, seed_key, config,          *)
(* launcher), its operations __init__, setup, _resolve_seeds,              *)
(* _format_override and sweep, and the launcher collaborator that sweep    *)
(* delegates to.                                                           *)
(*                                                                         *)
(* Python values are pairs <<type tag, payload>>.  Text is                 *)
(* a sequence of one-character strings, so that formatting, quoting and    *)
(* lower-casing are computed character by character.                       *)
(***************************************************************************)
EXTENDS Integers, Sequences, FiniteSets

VARIABLES
    combinations,   \* self.combinations: a sequence of combinations (dicts)
    seeds,          \* self.seeds: None, an int or a list of ints
    seed_key,       \* self.seed_key
    config,         \* config.hydra.sweeper as stored by setup, None before
    launcher,       \* self.launcher: None before setup
    ctor,           \* the arguments __init__ was called with
    call,           \* the most recent operation call and how it ended
    launched,       \* the launch calls the launcher received during that call
    seen            \* an earlier _resolve_seeds call and an earlier sweep call

vars == <<combinations, seeds, seed_key, config, launcher, ctor, call, launched, seen>>

---------------------------------------------------------------------------
(* Bounds of the model.                                                    *)

\* longest combination list passed to __init__
MaxCombos == 2
\* largest integer SeedSpec and longest explicit seed list
MaxSeeds == 2
\* longest trailing-argument list passed to sweep
MaxArgs == 2

---------------------------------------------------------------------------
(* Python values.                                                          *)

PyNone == <<"none", "None">>
PyBool(b) == <<"bool", b>>
PyInt(n) == <<"int", n>>
\* a float with one decimal digit, held as its number of tenths (15 is 1.5)
PyFloat(tenths) == <<"float", tenths>>
PyStr(s) == <<"str", s>>
PyList(xs) == <<"list", xs>>

\* the type and the payload of a value
Type(x) == x[1]
Val(x) == x[2]

\* hasattr(sweeper_cfg, name) is false
Missing == <<"missing", "missing">>

\* isinstance(value, int): bool is a subclass of int
IsInstanceInt(x) == Type(x) \in {"int", "bool"}

\* the truth value of an object (`if x`, `not x`, `a and x`)
Truthy(x) ==
    CASE Type(x) = "none" -> FALSE
      [] Type(x) = "bool" -> Val(x)
      [] Type(x) \in {"int", "float"} -> Val(x) # 0
      [] Type(x) \in {"str", "list"} -> Len(Val(x)) > 0
      [] OTHER -> TRUE

Digits == <<"0", "1", "2", "3", "4", "5", "6", "7", "8", "9">>

UpperCase == <<"A", "B", "C", "D", "E", "F", "G", "H", "I", "J", "K", "L", "M",
               "N", "O", "P", "Q", "R", "S", "T", "U", "V", "W", "X", "Y", "Z">>

LowerCase == <<"a", "b", "c", "d", "e", "f", "g", "h", "i", "j", "k", "l", "m",
               "n", "o", "p", "q", "r", "s", "t", "u", "v", "w", "x", "y", "z">>

\* str.lower(), character by character
Lower(s) ==
    [i \in 1..Len(s) |->
        IF \E u \in 1..Len(UpperCase) : UpperCase[u] = s[i]
        THEN LowerCase[CHOOSE u \in 1..Len(UpperCase) : UpperCase[u] = s[i]]
        ELSE s[i]]

RECURSIVE NatText(_)
\* the decimal digits of a natural number
NatText(n) ==
    IF n < 10 THEN <<Digits[n + 1]>>
    ELSE NatText(n \div 10) \o <<Digits[(n % 10) + 1]>>

\* str(n) of an int
IntText(n) == IF n < 0 THEN <<"-">> \o NatText(-n) ELSE NatText(n)

\* str(x) of a float with one decimal digit: 1.5, -0.5, 2.0
FloatText(tenths) ==
    LET a == IF tenths < 0 THEN -tenths ELSE tenths
    IN  (IF tenths < 0 THEN <<"-">> ELSE <<>>)
            \o NatText(a \div 10) \o <<".">> \o <<Digits[(a % 10) + 1]>>

RECURSIVE JoinInts(_)
\* ", ".join(repr(n) for n in xs)
JoinInts(xs) ==
    IF Len(xs) = 0 THEN <<>>
    ELSE IF Len(xs) = 1 THEN IntText(xs[1])
    ELSE IntText(xs[1]) \o <<",", " ">> \o JoinInts(Tail(xs))

\* str(x): what an f-string replacement field {x} inserts
Str(x) ==
    CASE Type(x) = "str" -> Val(x)
      [] Type(x) = "int" -> IntText(Val(x))
      [] Type(x) = "float" -> FloatText(Val(x))
      [] Type(x) = "bool" -> IF Val(x) THEN <<"T", "r", "u", "e">>
                                ELSE <<"F", "a", "l", "s", "e">>
      [] Type(x) = "none" -> <<"N", "o", "n", "e">>
      [] Type(x) = "list" -> <<"[">> \o JoinInts(Val(x)) \o <<"]">>

---------------------------------------------------------------------------
(* _format_override                                                        *)

\* the characters of " ,[]{}"
SpecialChars == <<" ", ",", "[", "]", "{", "}">>

\* c in value, for a one-character c and a str value
CharIn(c, s) == \E i \in 1..Len(s) : s[i] = c

\* any(c in value for c in " ,[]{}")
AnySpecial(s) == \E i \in 1..Len(SpecialChars) : CharIn(SpecialChars[i], s)

\* a variant without the bool branch: a bool is formatted like any other value
format_override_no_lower(key, value) ==
    IF Type(value) = "str"
    THEN IF AnySpecial(Val(value))
         THEN Str(key) \o <<"=", "\"">> \o Val(value) \o <<"\"">>
         ELSE Str(key) \o <<"=">> \o Val(value)
    ELSE IF Type(value) = "none"
    THEN Str(key) \o <<"=", "n", "u", "l", "l">>
    ELSE Str(key) \o <<"=">> \o Str(value)

format_override(key, value) ==
    IF Type(value) = "bool"
    THEN Str(key) \o <<"=">> \o Lower(Str(value))
    ELSE IF Type(value) = "str"
    THEN IF AnySpecial(Val(value))
         THEN Str(key) \o <<"=", "\"">> \o Val(value) \o <<"\"">>
         ELSE Str(key) \o <<"=">> \o Val(value)
    ELSE IF Type(value) = "none"
    THEN Str(key) \o <<"=", "n", "u", "l", "l">>
    ELSE Str(key) \o <<"=">> \o Str(value)

---------------------------------------------------------------------------
(* _resolve_seeds                                                          *)

\* list(range(n)): 0, 1, ..., n-1, empty when n <= 0
Range(n) == IF n <= 0 THEN <<>> ELSE [i \in 1..n |-> i - 1]

\* the int an int or a bool counts as
IntValue(x) == IF Type(x) = "bool" THEN (IF Val(x) THEN 1 ELSE 0) ELSE Val(x)

\* a variant that counts seeds from 1: list(range(1, n + 1))
resolve_seeds_one_based(self_seeds) ==
    IF Type(self_seeds) = "none" THEN PyNone
    ELSE IF IsInstanceInt(self_seeds)
    THEN PyList([i \in 1..(IF IntValue(self_seeds) < 0 THEN 0 ELSE IntValue(self_seeds))
                    |-> i])
    ELSE PyList(Val(self_seeds))

resolve_seeds(self_seeds) ==
    IF Type(self_seeds) = "none" THEN PyNone
    ELSE IF IsInstanceInt(self_seeds) THEN PyList(Range(IntValue(self_seeds)))
    ELSE PyList(Val(self_seeds))

---------------------------------------------------------------------------
(* sweep                                                                   *)

\* [self._format_override(k, v) for k, v in combo.items()]
FormatItems(combo) ==
    [i \in 1..Len(combo) |-> format_override(combo[i][1], combo[i][2])]

\* a variant that appends once, after the seed loop: the last seed's job only
ComboJobs_append_after_loop(combo, resolved, key, arguments) ==
    IF Type(resolved) # "none"
    THEN IF Len(Val(resolved)) = 0 THEN <<>>
         ELSE <<(FormatItems(combo)
                    \o <<format_override(key, PyInt(Val(resolved)[Len(Val(resolved))]))>>)
                    \o arguments>>
    ELSE <<FormatItems(combo) \o arguments>>

\* a variant that extends with the trailing arguments before the other tokens
ComboJobs_arguments_first(combo, resolved, key, arguments) ==
    IF Type(resolved) # "none"
    THEN [j \in 1..Len(Val(resolved)) |->
            (arguments \o FormatItems(combo))
                \o <<format_override(key, PyInt(Val(resolved)[j]))>>]
    ELSE <<arguments \o FormatItems(combo)>>

\* the jobs the body of `for combo in self.combinations` appends for one combo
ComboJobs(combo, resolved, key, arguments) ==
    IF Type(resolved) # "none"
    THEN [j \in 1..Len(Val(resolved)) |->
            (FormatItems(combo) \o <<format_override(key, PyInt(Val(resolved)[j]))>>)
                \o arguments]
    ELSE <<FormatItems(combo) \o arguments>>

RECURSIVE JobLoop(_, _, _, _, _, _)
\* the loop over self.combinations from its i-th element on, job_overrides so far
JobLoop(combos, i, job_overrides, resolved, key, arguments) ==
    IF i > Len(combos) THEN job_overrides
    ELSE JobLoop(combos, i + 1,
                 job_overrides \o ComboJobs(combos[i], resolved, key, arguments),
                 resolved, key, arguments)

\* a variant with the loops swapped: seed-major, combination-minor
JobOverrides_seed_major(combos, resolved, key, arguments) ==
    IF Type(resolved) = "none" THEN JobLoop(combos, 1, <<>>, resolved, key, arguments)
    ELSE [k \in 1..(Len(combos) * Len(Val(resolved))) |->
            (FormatItems(combos[((k - 1) % Len(combos)) + 1])
                \o <<format_override(key,
                        PyInt(Val(resolved)[((k - 1) \div Len(combos)) + 1]))>>)
                \o arguments]

\* job_overrides when the loop is done
JobOverrides(combos, resolved, key, arguments) ==
    JobLoop(combos, 1, <<>>, resolved, key, arguments)

\* a variant that tests `self.combinations is None`: never true of a list
NoCombinations_is_none(combos) == FALSE

\* `not self.combinations`
NoCombinations(combos) == Len(combos) = 0

\* a variant that launches each job on its own, at its own index
LaunchCalls_per_job(job_overrides) ==
    [k \in 1..Len(job_overrides) |->
        [jobs |-> <<job_overrides[k]>>, initial_job_idx |-> k - 1]]

\* the calls self.launcher.launch(job_overrides, initial_job_idx=0) makes
LaunchCalls(job_overrides) ==
    <<[jobs |-> job_overrides, initial_job_idx |-> 0]>>

Exception(name) == <<"exception", name>>

\* a variant that catches a launch failure and returns no results
AfterLaunch_swallow(reply) ==
    [outcome |-> "returned",
     value |-> IF reply.kind = "return" THEN reply.value ELSE PyList(<<>>)]

\* how sweep ends once the launcher has replied: no try/except, no retry
AfterLaunch(reply) ==
    [outcome |-> IF reply.kind = "return" THEN "returned" ELSE "raised",
     value |-> reply.value]

\* sweep(arguments) on an object with these fields, the launcher replying
\* `reply` to a launch call: the launch calls made and how sweep ends
sweep(self_combinations, self_seeds, self_seed_key, self_launcher, arguments, reply) ==
    IF NoCombinations(self_combinations)
    THEN [launched |-> <<>>, outcome |-> "returned", value |-> PyList(<<>>)]
    ELSE LET resolved == resolve_seeds(self_seeds)
             job_overrides ==
                 JobOverrides(self_combinations, resolved, self_seed_key, arguments)
         IN  IF Type(self_launcher) = "none"
             THEN [launched |-> <<>>, outcome |-> "raised",
                   value |-> Exception("AttributeError")]
             ELSE [launched |-> LaunchCalls(job_overrides),
                   outcome |-> AfterLaunch(reply).outcome,
                   value |-> AfterLaunch(reply).value]

---------------------------------------------------------------------------
(* setup                                                                   *)

\* OmegaConf.to_container(x, resolve=True) accepts only a config node (a list or
\* dict entry); given a plain int it raises ValueError
IsConfigNode(x) == Type(x) = "list"

\* self.combinations after the `if not self.combinations` block
SetupCombinations(self_combinations, cfg) ==
    IF NoCombinations(self_combinations)
       /\ Type(cfg.combinations) # "missing" /\ Truthy(cfg.combinations)
    THEN Val(cfg.combinations)
    ELSE self_combinations

\* whether setup reaches OmegaConf.to_container(sweeper_cfg.seeds, ...)
SetupLoadsSeeds(self_seeds, cfg) ==
    Type(self_seeds) = "none" /\ Type(cfg.seeds) # "missing" /\ Type(cfg.seeds) # "none"

\* self.seed_key after the `if hasattr(sweeper_cfg, "seed_key") ...` block
SetupSeedKey(self_seed_key, cfg) ==
    IF Type(cfg.seed_key) # "missing" /\ Truthy(cfg.seed_key)
    THEN cfg.seed_key
    ELSE self_seed_key

---------------------------------------------------------------------------
(* The inputs the operations are called with.                              *)

\* {s: ot}
ComboA == << <<PyStr(<<"s">>), PyStr(<<"o", "t">>)>> >>

\* {s: "a b", m.t: 0.5, f: True}
ComboB ==
    << <<PyStr(<<"s">>), PyStr(<<"a", " ", "b">>)>>,
       <<PyStr(<<"m", ".", "t">>), PyFloat(5)>>,
       <<PyStr(<<"f">>), PyBool(TRUE)>> >>

\* {s: ot, v: [1, 2]}: the value of v is a list, not a scalar
ComboListValue ==
    << <<PyStr(<<"s">>), PyStr(<<"o", "t">>)>>,
       <<PyStr(<<"v">>), PyList(<<1, 2>>)>> >>

\* {7: None}: the key is an int, not a string
ComboIntKey == << <<PyInt(7), PyNone>> >>

ValidCombos == {ComboA, ComboB}

InvalidCombos == {ComboListValue, ComboIntKey}

\* the lists of at most MaxCombos combinations of a pool
ComboLists(pool) == UNION {[1..n -> pool] : n \in 0..MaxCombos}

\* explicit seed lists are the runs of this list: in either order, with duplicates
SeedRuns == <<42, 42, 7, 42>>

SeedLists ==
    UNION {{SubSeq(SeedRuns, i, i + n - 1) : i \in 1..(Len(SeedRuns) - n + 1)} :
            n \in 0..MaxSeeds}

\* None, an integer N (range(N) is empty for N = -1), or an explicit list
SeedSpecs ==
    {PyNone} \cup {PyInt(n) : n \in -1..MaxSeeds} \cup {PyList(xs) : xs \in SeedLists}

\* the default of __init__'s seed_key
DefaultSeedKey == PyStr(<<"s", "e", "e", "d">>)

SeedKeys == {DefaultSeedKey, PyStr(<<"r", "s">>)}

\* the arguments of __init__ (max_batch_size and params are ignored)
CtorArgs(pool) ==
    [combinations : {PyNone} \cup {PyList(cs) : cs \in ComboLists(pool)},
     seeds : SeedSpecs,
     seed_key : SeedKeys]

\* config.hydra.sweeper: each entry may be missing
AllSweeperConfigs ==
    [combinations : {Missing, PyList(<<>>), PyList(<<ComboB, ComboA>>)},
     seeds : {Missing, PyNone, PyInt(3), PyList(<<9, 8>>)},
     seed_key : {Missing, PyStr(<<>>), PyStr(<<"c", "s">>)}]

\* three of them: nothing configured, everything configured, and entries that
\* are present but empty
SomeSweeperConfigs ==
    {[combinations |-> Missing, seeds |-> Missing, seed_key |-> Missing],
     [combinations |-> PyList(<<ComboB, ComboA>>), seeds |-> PyList(<<9, 8>>),
      seed_key |-> PyStr(<<"c", "s">>)],
     [combinations |-> PyList(<<>>), seeds |-> PyNone, seed_key |-> PyStr(<<>>)]}

\* x=1 +y=ab z=[3]
AllArgs == <<<<"x", "=", "1">>, <<"+", "y", "=", "a", "b">>, <<"z", "=", "[", "3", "]">>>>

\* the trailing arguments of a sweep call: the first n of AllArgs
ArgLists == {SubSeq(AllArgs, 1, n) : n \in 0..MaxArgs}

\* what the launcher does with a launch call: return results or raise
LauncherReplies ==
    {[kind |-> "return", value |-> PyList(rs)] : rs \in {<<"r1">>, <<"r2", "r1">>}}
        \cup {[kind |-> "raise", value |-> Exception("LauncherError")]}

---------------------------------------------------------------------------
(* What the calls leave behind.                                            *)

\* self.seeds after _resolve_seeds(): the method assigns to no attribute, and
\* list(range(...)) and list(self.seeds) build new lists
AfterResolveSeeds(self_seeds) == self_seeds

\* a variant of sweep that keeps the resolved seeds on the object:
\* self.seeds = self._resolve_seeds()
AfterSweep_keeps_resolved(self_combinations, self_seeds, self_seed_key, arguments) ==
    [combinations |-> self_combinations,
     seeds |-> IF NoCombinations(self_combinations) THEN self_seeds
               ELSE resolve_seeds(self_seeds),
     seed_key |-> self_seed_key,
     arguments |-> arguments]

\* the three fields and the caller's `arguments` list after sweep(arguments):
\* sweep assigns to no attribute, reads each combination through .items(),
\* and copies `arguments` into the new `overrides` list of each job
AfterSweep(self_combinations, self_seeds, self_seed_key, arguments) ==
    [combinations |-> self_combinations,
     seeds |-> self_seeds,
     seed_key |-> self_seed_key,
     arguments |-> arguments]

\* nothing remembered of the earlier calls
NothingSeen == [resolved |-> <<"unset", "unset">>, swept |-> <<"unset", "unset">>]

---------------------------------------------------------------------------
(* The object and its operations.                                          *)

\* __init__(combinations, seeds, seed_key)
Construct(args) ==
    /\ ctor = args
    /\ combinations = IF Truthy(args.combinations) THEN Val(args.combinations) ELSE <<>>
    /\ seeds = args.seeds
    /\ seed_key = args.seed_key
    /\ config = PyNone
    /\ launcher = PyNone
    /\ call = [op |-> "__init__", args |-> <<>>, outcome |-> "returned",
               value |-> PyNone]
    /\ launched = <<>>
    /\ seen = NothingSeen

Init == \E args \in CtorArgs(ValidCombos) : Construct(args)

\* setup(hydra_context, task_function, config), config.hydra.sweeper being cfg;
\* the host framework calls it once
Setup(cfg) ==
    /\ Type(config) = "none"
    /\ config' = <<"DictConfig", cfg>>
    /\ launcher' = <<"launcher", "launcher">>
    /\ combinations' = SetupCombinations(combinations, cfg)
    /\ IF SetupLoadsSeeds(seeds, cfg) /\ ~IsConfigNode(cfg.seeds)
       THEN /\ call' = [op |-> "setup", args |-> <<>>, outcome |-> "raised",
                        value |-> Exception("ValueError")]
            /\ UNCHANGED <<seeds, seed_key>>
       ELSE /\ seeds' = IF SetupLoadsSeeds(seeds, cfg) THEN PyList(Val(cfg.seeds))
                        ELSE seeds
            /\ seed_key' = SetupSeedKey(seed_key, cfg)
            /\ call' = [op |-> "setup", args |-> <<>>, outcome |-> "returned",
                        value |-> PyNone]
    /\ launched' = <<>>
    /\ UNCHANGED <<ctor, seen>>

\* the object during a call of _resolve_seeds()
ResolveSeedsCall ==
    /\ call' = [op |-> "_resolve_seeds", args |-> <<>>, outcome |-> "returned",
                value |-> resolve_seeds(seeds)]
    /\ launched' = <<>>
    /\ seeds' = AfterResolveSeeds(seeds)
    /\ UNCHANGED <<combinations, seed_key, config, launcher, ctor>>

\* a call of _resolve_seeds()
ResolveSeeds == ResolveSeedsCall /\ UNCHANGED seen

\* the object during a call of sweep(arguments), the launcher replying `reply`
\* if it is called; call.arguments is the caller's list after the call
SweepCall(arguments, reply) ==
    LET r == sweep(combinations, seeds, seed_key, launcher, arguments, reply)
        after == AfterSweep(combinations, seeds, seed_key, arguments)
    IN  /\ call' = [op |-> "sweep", args |-> arguments, outcome |-> r.outcome,
                    value |-> r.value, reply |-> reply,
                    arguments |-> after.arguments]
        /\ launched' = r.launched
        /\ combinations' = after.combinations
        /\ seeds' = after.seeds
        /\ seed_key' = after.seed_key
        /\ UNCHANGED <<config, launcher, ctor>>

\* a call of sweep(arguments)
Sweep(arguments, reply) == SweepCall(arguments, reply) /\ UNCHANGED seen

Next ==
    \/ \E cfg \in SomeSweeperConfigs : Setup(cfg)
    \/ ResolveSeeds
    \/ \E arguments \in ArgLists, reply \in LauncherReplies : Sweep(arguments, reply)

Spec == Init /\ [][Next]_vars

---------------------------------------------------------------------------
(* setup alone, over every configuration.                                  *)

NextSetup == \E cfg \in AllSweeperConfigs : Setup(cfg)

SpecSetup == Init /\ [][NextSetup]_vars

---------------------------------------------------------------------------
(* Combinations outside the data model: a list value, an int key.          *)

InitInvalid == \E args \in CtorArgs(InvalidCombos \cup {ComboA}) : Construct(args)

SpecInvalid == InitInvalid /\ [][Next]_vars

---------------------------------------------------------------------------
(* _format_override alone, over keys and values of every scalar kind.      *)

FormatKeys ==
    {PyStr(<<"a">>),
     PyStr(<<"n", "e", "s", "t", "e", "d", ".", "k", "e", "y">>),
     PyStr(<<"k", " ", "1">>)}

FormatStrings ==
    {<<>>, <<" ">>, <<"1">>,
     <<"f", "o", "o">>,
     <<"f", "o", "o", " ", "b", "a", "r">>,
     <<"[", "1", ",", "2", "]">>,
     <<"a", ",", "b">>,
     <<"{", "x", "}">>,
     <<"x", "}">>,
     <<"T", "r", "u", "e">>,
     <<"n", "u", "l", "l">>,
     <<"q", "\"", "q">>,
     <<"s", "a", "y", " ", "\"", "h", "i", "\"">>}

FormatValues ==
    {PyBool(TRUE), PyBool(FALSE), PyNone}
        \cup {PyInt(n) : n \in {0, 1, 7, -3, 10, 42, 105, -20}}
        \cup {PyFloat(n) : n \in {0, 5, -5, 15, 20, 105, -123}}
        \cup {PyStr(x) : x \in FormatStrings}

InitFormat ==
    /\ \E key \in FormatKeys, value \in FormatValues :
          call = [op |-> "arguments", args |-> <<key, value>>, outcome |-> "pending",
                  value |-> PyNone]
    /\ ctor = [combinations |-> PyNone, seeds |-> PyNone, seed_key |-> DefaultSeedKey]
    /\ combinations = <<>>
    /\ seeds = PyNone
    /\ seed_key = DefaultSeedKey
    /\ config = PyNone
    /\ launcher = PyNone
    /\ launched = <<>>
    /\ seen = NothingSeen

\* a call of _format_override(key, value) with the arguments drawn
FormatOverride ==
    /\ call.op = "arguments"
    /\ call' = [op |-> "_format_override", args |-> call.args, outcome |-> "returned",
                value |-> PyStr(format_override(call.args[1], call.args[2]))]
    /\ UNCHANGED <<combinations, seeds, seed_key, config, launcher, ctor, launched, seen>>

NextFormat == FormatOverride

SpecFormat == InitFormat /\ [][NextFormat]_vars

---------------------------------------------------------------------------
(* Repeated calls once setup has completed, an earlier call of each kind   *)
(* being remembered for comparison with the later ones.                    *)

\* what may be remembered when a call starts: what was remembered already, or
\* the call that has just ended in its place
Remembered ==
    {seen} \cup
        (IF call.op = "_resolve_seeds"
         THEN {[seen EXCEPT !.resolved = <<"seen", call.value>>]}
         ELSE IF call.op = "sweep"
         THEN {[seen EXCEPT !.swept = <<"seen", [args |-> call.args,
                                                 launched |-> launched]>>]}
         ELSE {})

\* a call of _resolve_seeds() after setup
ResolveSeedsAgain ==
    /\ Type(launcher) # "none"
    /\ ResolveSeedsCall
    /\ seen' \in Remembered

\* a call of sweep(arguments) after setup
SweepAgain(arguments, reply) ==
    /\ Type(launcher) # "none"
    /\ SweepCall(arguments, reply)
    /\ seen' \in Remembered

\* the launcher returning the results of its jobs
RepeatReplies == {reply \in LauncherReplies : reply.value = PyList(<<"r2", "r1">>)}

\* construction with a combination list and the default seed_key
InitRepeat ==
    \E args \in CtorArgs(ValidCombos) :
        /\ Type(args.combinations) = "list"
        /\ args.seed_key = DefaultSeedKey
        /\ Construct(args)

NextRepeat ==
    \/ \E cfg \in SomeSweeperConfigs : Setup(cfg)
    \/ ResolveSeedsAgain
    \/ \E arguments \in ArgLists, reply \in RepeatReplies : SweepAgain(arguments, reply)

SpecRepeat == InitRepeat /\ [][NextRepeat]_vars

---------------------------------------------------------------------------
(* What the claims speak of.                                               *)

\* the most recent call was sweep and it reached self.launcher.launch
SweepLaunched == call.op = "sweep" /\ Len(launched) > 0

\* the number of seeds a configured SeedSpec stands for
SeedCount(spec) ==
    IF Type(spec) = "int" THEN (IF Val(spec) < 0 THEN 0 ELSE Val(spec)) ELSE Len(Val(spec))

\* the j-th seed a configured SeedSpec stands for, j = 1, 2, ...
SeedAt(spec, j) == IF Type(spec) = "int" THEN j - 1 ELSE Val(spec)[j]

\* C1: the job list handed to the launcher has |combinations| jobs without a
\* SeedSpec and |combinations| x S jobs with one that resolves to S seeds (S = N
\* for an integer N >= 0, S = the length of an explicit list); S = 0 gives zero
\* jobs and no error of sweep's own.
C1_JobCount ==
    (call.op = "sweep" /\ Len(combinations) > 0) =>
        /\ \A k \in 1..Len(launched) :
              LET jobs == launched[k].jobs
              IN  /\ Type(seeds) = "none" => Len(jobs) = Len(combinations)
                  /\ (Type(seeds) = "int" /\ Val(seeds) >= 0) =>
                        Len(jobs) = Len(combinations) * Val(seeds)
                  /\ Type(seeds) = "list" => Len(jobs) = Len(combinations) * Len(Val(seeds))
        /\ (Type(launcher) # "none" /\ Type(seeds) # "none" /\ SeedCount(seeds) = 0) =>
              /\ Len(launched) = 1
              /\ launched[1].jobs = <<>>
              /\ (call.outcome = "raised" => call.reply.kind = "raise")

C1_Witness ==
    /\ SweepLaunched
    /\ Len(combinations) = 2
    /\ seeds = PyList(<<42, 7>>)
    /\ Len(launched[1].jobs) = 4

\* C2: with seeds configured, the job at index i*S + j is built from combination i
\* and the j-th resolved seed (combination-major, seed-minor).
C2_CombinationMajor ==
    (call.op = "sweep" /\ Type(seeds) # "none") =>
        \A k \in 1..Len(launched) :
            LET jobs == launched[k].jobs
                C == Len(combinations)
                S == SeedCount(seeds)
            IN  /\ Len(jobs) = C * S
                /\ \A i \in 0..(C - 1), j \in 0..(S - 1) :
                      LET job == jobs[i * S + j + 1]
                          combo == combinations[i + 1]
                      IN  /\ Len(job) > Len(combo)
                          /\ SubSeq(job, 1, Len(combo)) = FormatItems(combo)
                          /\ job[Len(combo) + 1]
                                = format_override(seed_key, PyInt(SeedAt(seeds, j + 1)))

C2_Witness ==
    /\ SweepLaunched
    /\ combinations = <<ComboA, ComboB>>
    /\ seeds = PyList(<<42, 7>>)
    /\ Len(launched[1].jobs) = 4
    /\ launched[1].jobs[2][2] = <<"s", "e", "e", "d", "=", "7">>
    /\ launched[1].jobs[3][1] = <<"s", "=", "\"", "a", " ", "b", "\"">>

\* C3: every job is its combination's tokens in the combination's key order, then
\* one seed token exactly when seeds are configured, then the trailing arguments
\* unmodified and in order, and nothing else.
C3_JobLayout ==
    call.op = "sweep" =>
        \A k \in 1..Len(launched) :
            \A n \in 1..Len(launched[k].jobs) :
                LET job == launched[k].jobs[n]
                    arguments == call.args
                    extra == IF Type(seeds) = "none" THEN 0 ELSE 1
                IN  \E i \in 1..Len(combinations) :
                        LET combo == combinations[i]
                        IN  /\ Len(job) = Len(combo) + extra + Len(arguments)
                            /\ \A p \in 1..Len(combo) :
                                  job[p] = format_override(combo[p][1], combo[p][2])
                            /\ Type(seeds) # "none" =>
                                  \E j \in 1..SeedCount(seeds) :
                                      job[Len(combo) + 1]
                                        = format_override(seed_key, PyInt(SeedAt(seeds, j)))
                            /\ \A q \in 1..Len(arguments) :
                                  job[Len(combo) + extra + q] = arguments[q]

C3_Witness ==
    /\ SweepLaunched
    /\ combinations = <<ComboB>>
    /\ seeds = PyInt(1)
    /\ seed_key = PyStr(<<"r", "s">>)
    /\ Len(call.args) = 2
    /\ launched[1].jobs
         = << <<<<"s", "=", "\"", "a", " ", "b", "\"">>,
                <<"m", ".", "t", "=", "0", ".", "5">>,
                <<"f", "=", "t", "r", "u", "e">>,
                <<"r", "s", "=", "0">>,
                <<"x", "=", "1">>,
                <<"+", "y", "=", "a", "b">>>> >>

\* a value was supplied at construction
SuppliedCombinations == Truthy(ctor.combinations)
SuppliedSeeds == Type(ctor.seeds) # "none"
SuppliedSeedKey == ctor.seed_key # DefaultSeedKey

\* C4: after setup each of combinations, seeds and seed_key still holds the value
\* supplied at construction, whatever the configuration contains; only a value
\* not supplied at construction is taken from the configuration, if present.
C4_ConstructionWins ==
    (call.op = "setup" /\ call.outcome = "returned") =>
        /\ SuppliedCombinations => combinations = Val(ctor.combinations)
        /\ SuppliedSeeds => seeds = ctor.seeds
        /\ SuppliedSeedKey => seed_key = ctor.seed_key
        /\ ~SuppliedCombinations =>
              combinations = IF Type(Val(config).combinations) # "missing"
                                /\ Truthy(Val(config).combinations)
                             THEN Val(Val(config).combinations) ELSE <<>>
        /\ ~SuppliedSeeds =>
              seeds = IF Type(Val(config).seeds) \in {"missing", "none"}
                      THEN PyNone ELSE Val(config).seeds
        /\ ~SuppliedSeedKey =>
              seed_key = IF Type(Val(config).seed_key) # "missing"
                            /\ Truthy(Val(config).seed_key)
                         THEN Val(config).seed_key ELSE DefaultSeedKey

\* the full job list of a sweep call with these trailing arguments
FullJobList(arguments) ==
    JobOverrides(combinations, resolve_seeds(seeds), seed_key, arguments)

\* C5 as stated, for the calls made after setup to which the launcher would
\* return results: every such sweep call invokes the launcher exactly once with
\* the full job list and index 0 and returns what the launcher returned.
C5_EveryCallLaunchesOnce ==
    (call.op = "sweep" /\ Type(launcher) # "none" /\ call.reply.kind = "return") =>
        /\ Len(launched) = 1
        /\ launched[1].jobs = FullJobList(call.args)
        /\ launched[1].initial_job_idx = 0
        /\ call.outcome = "returned"
        /\ call.value = call.reply.value

\* C5, amended: a sweep call on a non-empty combination sequence, made once setup
\* has acquired the launcher, invokes the launcher exactly once with the full
\* ordered job list and initial job index 0 and, when that launch returns, returns
\* exactly the launcher's result; on an empty combination sequence sweep does not
\* invoke the launcher and returns an empty sequence.
C5_LaunchesOnceUnlessEmpty ==
    call.op = "sweep" =>
        IF Len(combinations) = 0
        THEN /\ launched = <<>>
             /\ call.outcome = "returned"
             /\ call.value = PyList(<<>>)
        ELSE Type(launcher) # "none" =>
                /\ Len(launched) = 1
                /\ launched[1].jobs = FullJobList(call.args)
                /\ launched[1].initial_job_idx = 0
                /\ call.reply.kind = "return" =>
                      (call.outcome = "returned" /\ call.value = call.reply.value)

C5_Witness ==
    /\ SweepLaunched
    /\ Len(combinations) = 2
    /\ Type(seeds) = "none"
    /\ Len(launched[1].jobs) = 2
    /\ call.outcome = "returned"
    /\ call.value = PyList(<<"r2", "r1">>)

\* C6: on an empty combination sequence sweep returns an empty sequence and
\* raises nothing, for every SeedSpec and every trailing-argument list, also when
\* setup has never run.
C6_EmptyCombinations ==
    (call.op = "sweep" /\ Len(combinations) = 0) =>
        (call.outcome = "returned" /\ call.value = PyList(<<>>))

C6_Witness ==
    /\ call.op = "sweep"
    /\ Len(combinations) = 0
    /\ Type(launcher) = "none"
    /\ Type(config) = "none"
    /\ seeds = PyInt(2)
    /\ Len(call.args) = 2
    /\ call.outcome = "returned"

IsDigit(c) == \E d \in 0..9 : Digits[d + 1] = c

DigitValue(c) == CHOOSE d \in 0..9 : Digits[d + 1] = c

RECURSIVE DigitsValue(_)
\* the number a sequence of decimal digits denotes
DigitsValue(ds) ==
    IF Len(ds) = 0 THEN 0
    ELSE DigitsValue(SubSeq(ds, 1, Len(ds) - 1)) * 10 + DigitValue(ds[Len(ds)])

\* ds is the decimal numeral of the natural number n, without leading zeros
IsNumeral(ds, n) ==
    /\ Len(ds) >= 1
    /\ \A i \in 1..Len(ds) : IsDigit(ds[i])
    /\ Len(ds) > 1 => ds[1] # "0"
    /\ DigitsValue(ds) = n

\* text is the default text of the int n: an optional minus sign and a numeral
IsIntText(text, n) ==
    IF n < 0
    THEN Len(text) >= 2 /\ text[1] = "-" /\ IsNumeral(Tail(text), -n)
    ELSE IsNumeral(text, n)

\* text is the default text of the float of that many tenths: sign, numeral,
\* point, one digit
IsFloatText(text, tenths) ==
    LET body == IF tenths < 0 THEN Tail(text) ELSE text
        a == IF tenths < 0 THEN -tenths ELSE tenths
    IN  /\ tenths < 0 => (Len(text) >= 1 /\ text[1] = "-")
        /\ Len(body) >= 3
        /\ body[Len(body) - 1] = "."
        /\ IsDigit(body[Len(body)])
        /\ IsNumeral(SubSeq(body, 1, Len(body) - 2), a \div 10)
        /\ DigitValue(body[Len(body)]) = a % 10

\* C7: format_override(key, value) is the key unchanged, "=", and then true or
\* false for a boolean, null for null, the string in double quotes when it holds
\* a space, comma, bracket or brace and bare otherwise (embedded quotes are not
\* escaped), and the default text of an integer or float, unquoted.
C7_FormatOverride ==
    call.op = "_format_override" =>
        LET key == Val(call.args[1])
            value == call.args[2]
            out == Val(call.value)
            rest == SubSeq(out, Len(key) + 2, Len(out))
            special == \E i \in 1..Len(Val(value)) :
                          Val(value)[i] \in {" ", ",", "[", "]", "{", "}"}
        IN  /\ Len(out) > Len(key)
            /\ SubSeq(out, 1, Len(key)) = key
            /\ out[Len(key) + 1] = "="
            /\ value = PyBool(TRUE) => rest = <<"t", "r", "u", "e">>
            /\ value = PyBool(FALSE) => rest = <<"f", "a", "l", "s", "e">>
            /\ Type(value) = "none" => rest = <<"n", "u", "l", "l">>
            /\ (Type(value) = "str" /\ special) => rest = <<"\"">> \o Val(value) \o <<"\"">>
            /\ (Type(value) = "str" /\ ~special) => rest = Val(value)
            /\ Type(value) = "int" => IsIntText(rest, Val(value))
            /\ Type(value) = "float" => IsFloatText(rest, Val(value))

C7_Witness ==
    /\ call.op = "_format_override"
    /\ call.args = <<PyStr(<<"k", " ", "1">>),
                     PyStr(<<"s", "a", "y", " ", "\"", "h", "i", "\"">>)>>
    /\ Val(call.value) = <<"k", " ", "1", "=", "\"",
                        "s", "a", "y", " ", "\"", "h", "i", "\"", "\"">>

\* C8: resolve_seeds returns absent for an absent SeedSpec, [0, 1, ..., N-1] for
\* an integer N >= 0 (empty for N = 0), and for an explicit sequence a sequence
\* equal to it element by element, order and duplicates kept.
C8_ResolveSeeds ==
    call.op = "_resolve_seeds" =>
        /\ Type(seeds) = "none" => call.value = PyNone
        /\ (Type(seeds) = "int" /\ Val(seeds) >= 0) =>
              /\ Type(call.value) = "list"
              /\ Len(Val(call.value)) = Val(seeds)
              /\ \A i \in 1..Val(seeds) : Val(call.value)[i] = i - 1
        /\ Type(seeds) = "list" =>
              /\ Type(call.value) = "list"
              /\ Len(Val(call.value)) = Len(Val(seeds))
              /\ \A i \in 1..Len(Val(seeds)) : Val(call.value)[i] = Val(seeds)[i]

C8_Witness ==
    /\ call.op = "_resolve_seeds"
    /\ seeds = PyInt(2)
    /\ call.value = PyList(<<0, 1>>)

\* a combination holds a value that is no boolean, integer, float, string or
\* null, or a key that is no string
HasInvalidParameter(combos) ==
    \E i \in 1..Len(combos) :
        \E p \in 1..Len(combos[i]) :
            \/ Type(combos[i][p][1]) # "str"
            \/ Type(combos[i][p][2]) \notin {"bool", "int", "float", "str", "none"}

\* C9, for the calls made once setup has acquired the launcher: a sweep over a
\* combination with an invalid value or key raises InvalidParameterError and the
\* launcher is not invoked.
C9_InvalidParameterError ==
    (call.op = "sweep" /\ Type(launcher) # "none" /\ HasInvalidParameter(combinations)) =>
        /\ call.outcome = "raised"
        /\ call.value = Exception("InvalidParameterError")
        /\ launched = <<>>

\* C10: when the launch call fails, sweep raises that same failure, having
\* called the launcher once and no more, and returns no result.
C10_LaunchFailurePropagates ==
    (SweepLaunched /\ call.reply.kind = "raise") =>
        /\ call.outcome = "raised"
        /\ call.value = call.reply.value
        /\ Len(launched) = 1

C10_Witness ==
    /\ SweepLaunched
    /\ call.reply.kind = "raise"
    /\ Len(launched[1].jobs) = 2
    /\ call.outcome = "raised"
    /\ call.value = Exception("LauncherError")

\* C11: once setup has completed, a call of _resolve_seeds or sweep leaves
\* combinations, seeds and seed_key as they were, and sweep leaves the caller's
\* trailing-argument list as it was passed; a _resolve_seeds call returns what
\* an earlier one returned, and a sweep call passes the launcher the job list
\* that an earlier sweep call with the same trailing arguments passed.
C11_CallsChangeNothing ==
    [][Type(config) # "none" =>
          /\ combinations' = combinations
          /\ seeds' = seeds
          /\ seed_key' = seed_key
          /\ (call'.op = "sweep" => call'.arguments = call'.args)
          /\ (call'.op = "_resolve_seeds" /\ seen'.resolved[1] = "seen") =>
                call'.value = seen'.resolved[2]
          /\ (/\ call'.op = "sweep"
              /\ seen'.swept[1] = "seen"
              /\ seen'.swept[2].args = call'.args) =>
                launched' = seen'.swept[2].launched]_vars

\* a third call at least: a sweep over two combinations and an integer SeedSpec
\* of 2 with trailing arguments, after an earlier sweep with the same trailing
\* arguments and an earlier _resolve_seeds call
C11_Witness ==
    /\ call.op = "sweep"
    /\ Len(call.args) = 2
    /\ Len(combinations) = 2
    /\ seeds = PyInt(2)
    /\ seen.resolved = <<"seen", PyList(<<0, 1>>)>>
    /\ seen.swept[1] = "seen"
    /\ seen.swept[2].args = call.args
    /\ Len(launched) = 1
    /\ Len(launched[1].jobs) = 4
    /\ launched = seen.swept[2].launched

=============================================================================
